---------------------------- MODULE Spec2Model ----------------------------
(***************************************************************************)
(* Change-feed backend of the TPC-H dashboard example                      *)
(* (src/config/examples/tpch/dashboard/backend/main.py).                   *)
(*                                                                         *)
(* One asyncio task runs poll_events(); every accepted WebSocket runs its  *)
(* own websocket_endpoint() coroutine.  asyncio tasks interleave only at   *)
(* an await, so every action below runs one task from the await it is      *)
(* suspended in up to the next await it reaches:                           *)
(*   poll_events         line 49 (fetch_all), line 68 (send_json),         *)
(*                       line 78 / line 82 (sleep)                         *)
(*   websocket_endpoint  line 87 (accept), line 94 (receive_text)          *)
(* The db_events table is written by other processes (append only).        *)
(***************************************************************************)
EXTENDS Integers, Sequences, FiniteSets, TLC

\* Bounds of the model.
NumClients == 2         \* WebSocket objects that may ever be created
MaxLog == 3             \* rows that may ever be appended to db_events

\* main.py:32 sets 100; the model scales the limit down so that a burst
\* larger than the limit fits in MaxLog rows.
MAX_EVENTS_PER_POLL == 2

Clients == 1..NumClients

VARIABLES
    db_events,          \* the table: sequence of rows [id, ok], ascending id;
                        \* ok = the row's created_at has .isoformat()
    last_event_id,      \* main.py:27
    connected_clients,  \* main.py:28
    pc,                 \* await the polling task is suspended in
    last_id,            \* :last_id bound into the query in flight (line 51)
    new_events,         \* local of poll_events (line 49)
    idx,                \* position of `event` in new_events (line 56)
    client,             \* local of poll_events (line 66)
    it_used,            \* set iterator of line 66: size of the set at creation
    it_rest,            \* set iterator of line 66: members in slots not yet passed
    disconnected,       \* local of poll_events (line 65)
    e,                  \* exception caught at line 80 ("none" outside the handler)
    ws,                 \* per WebSocket: position of its websocket_endpoint
    database,           \* main.py:24: "connected" (line 126) or "disconnected" (line 131)
    stalled,            \* the send_json awaited at line 68 will never return
    \* history variables (observations, never read by the program); what is
    \* recorded per handle in joinCursor, failed and lastSent is dropped when
    \* the handle will not be sent to again: it is not registered and the
    \* polling task is not inside a send to it
    joinCursor,         \* last_event_id when the handle was added (line 88)
    failed,             \* handles for which a send_json has raised
    lastSent,           \* id of the last event for which send_json(handle) was called
    got,                \* per handle: ids delivered in the current poll cycle
    atStart,            \* connected_clients when the cycle's broadcast began (line 55)
    cycleFailed,        \* handles for which a send raised in the current cycle
    removedBy           \* per handle: who executed a removal of it, in order

vars == << db_events, last_event_id, connected_clients, pc, last_id, new_events,
           idx, client, it_used, it_rest, disconnected, e, ws, database,
           stalled,
           joinCursor, failed, lastSent, got, atStart, cycleFailed, removedBy >>

outside == << database, stalled >>
pollLocals == << idx, client, it_used, it_rest, disconnected >>
history == << joinCursor, failed, lastSent, got, atStart, cycleFailed, removedBy >>

\* handles registered since the cycle's broadcast began, no send to them raised
steady == {c \in atStart : c \notin cycleFailed /\ ws[c] = "recv"}

-----------------------------------------------------------------------------
\* Helpers

Ids(batch) == [i \in 1..Len(batch) |-> batch[i].id]

IdSet(batch) == {batch[i].id : i \in 1..Len(batch)}

MaxOf(S) == CHOOSE m \in S : \A x \in S : x <= m

WellFormed(batch) == \A i \in 1..Len(batch) : batch[i].ok

Prefix(s, n) == SubSeq(s, 1, IF Len(s) < n THEN Len(s) ELSE n)

\* SELECT ... FROM db_events WHERE id >= :last_id (an off-by-one of the query)
FetchAllInclusive(rows, lastId, limit) ==
    Prefix(SelectSeq(rows, LAMBDA r : r.id >= lastId), limit)

\* SELECT ... FROM db_events WHERE id > :last_id ORDER BY id ASC LIMIT :limit
FetchAll(rows, lastId, limit) ==
    Prefix(SelectSeq(rows, LAMBDA r : r.id > lastId), limit)

\* the cursor taken from the first row of the batch instead of the last
FirstEventId(batch) == batch[1].id

\* line 76: new_events[-1]["id"]
LastEventId(batch) == batch[Len(batch)].id

\* set.symmetric_difference_update: an absent member is put back
SymmetricDifferenceUpdate(S, D) == (S \ D) \cup (D \ S)

\* the registry dropped as a whole as soon as one handle is to be removed
ClearOnRemoval(S, D) == IF D = {} THEN S ELSE {}

\* line 73: set.difference_update; line 101: set.discard (D a singleton)
DifferenceUpdate(S, D) == S \ D

\* removedBy after `who` has executed a removal of every handle in D
Mark(rb, D, who) == [c \in Clients |-> IF c \in D THEN Append(rb[c], who) ELSE rb[c]]

\* The polling task suspended in send_json(client) for event i, the iterator
\* having `rest` still ahead of it.
AtSend(i, c, used, rest, disc, cc, cur, rb) ==
    [pc |-> "send", idx |-> i, client |-> c, it_used |-> used, it_rest |-> rest,
     disconnected |-> disc, e |-> "none", cc |-> cc, cursor |-> cur, rb |-> rb]

\* The polling task suspended in a sleep: line 78 (where = "sleep") or, with
\* the exception err caught at line 80, line 82 (where = "sleep_err").  The
\* locals of the inner loops are dead there and are written as 0 / {}.
AtSleep(where, err, cc, cur, rb) ==
    [pc |-> where, idx |-> 0, client |-> 0, it_used |-> 0, it_rest |-> {},
     disconnected |-> {}, e |-> err, cc |-> cc, cursor |-> cur, rb |-> rb]

\* Lines 56-76 from the top of `for event in new_events` at position i up to
\* the next await: the set of states the task can be suspended in.
RECURSIVE EventLoop(_, _, _, _, _)
EventLoop(batch, i, cc, cur, rb) ==
    IF i > Len(batch)
    THEN {AtSleep("sleep", "none", cc, LastEventId(batch), rb)}       \* line 76, 78
    ELSE IF ~batch[i].ok
    THEN {AtSleep("sleep_err", "record", cc, cur, rb)}                \* line 61 raises
    ELSE IF cc = {}
    THEN EventLoop(batch, i + 1, cc, cur, rb)                         \* lines 65-73, no client
    ELSE {AtSend(i, c, Cardinality(cc), cc \ {c}, {}, cc, cur, rb) : c \in cc}

\* Lines 66-76 from the return (or the raise) of send_json up to the next
\* await.  next() of the set iterator first compares the set's size with the
\* size at creation and raises RuntimeError when they differ.
ClientLoop(batch, i, used, rest, disc, cc, cur, rb) ==
    IF Cardinality(cc) # used
    THEN {AtSleep("sleep_err", "iter", cc, cur, rb)}
    ELSE IF rest # {}
    THEN {AtSend(i, c, used, rest \ {c}, disc, cc, cur, rb) : c \in rest}
    ELSE EventLoop(batch, i + 1, DifferenceUpdate(cc, disc), cur,
                   Mark(rb, disc, "broadcaster"))

\* The polling task takes up the state r.
PollBecomes(r) ==
    /\ pc' = r.pc
    /\ idx' = r.idx
    /\ client' = r.client
    /\ it_used' = r.it_used
    /\ it_rest' = r.it_rest
    /\ disconnected' = r.disconnected
    /\ e' = r.e
    /\ connected_clients' = r.cc
    /\ last_event_id' = r.cursor
    /\ removedBy' = r.rb

EmptyGot == [c \in Clients |-> << >>]

\* the handles that the polling task, taking up the state r, will not send to
\* again: not registered and not the target of the send it is suspended in
Gone(r) == Clients \ (r.cc \cup (IF r.pc = "send" THEN {r.client} ELSE {}))

\* the per-handle record f without what it holds for the handles in D
Forget(f, D) == [c \in Clients |-> IF c \in D THEN 0 ELSE f[c]]

-----------------------------------------------------------------------------
Init ==
    /\ db_events = << >>
    /\ last_event_id = 0
    /\ connected_clients = {}
    /\ pc = "fetch"                  \* startup(): the task runs to line 49
    /\ last_id = 0
    /\ new_events = << >>
    /\ idx = 0
    /\ client = 0
    /\ it_used = 0
    /\ it_rest = {}
    /\ disconnected = {}
    /\ e = "none"
    /\ ws = [c \in Clients |-> "idle"]
    /\ database = "connected"       \* startup(): line 126
    /\ stalled = FALSE
    /\ joinCursor = [c \in Clients |-> 0]
    /\ failed = {}
    /\ lastSent = [c \in Clients |-> 0]
    /\ got = EmptyGot
    /\ atStart = {}
    /\ cycleFailed = {}
    /\ removedBy = [c \in Clients |-> << >>]

\* Another process appends a row to db_events.  The program reads the table
\* only at line 49, so a row appended while the polling task is elsewhere is
\* first seen by its next query: appends are taken while a query is in flight.
AppendEvent ==
    /\ Len(db_events) < MaxLog
    /\ pc = "fetch"
    /\ \E ok \in BOOLEAN :
         db_events' = Append(db_events, [id |-> Len(db_events) + 1, ok |-> ok])
    /\ UNCHANGED << last_event_id, connected_clients, pc, last_id, new_events,
                    pollLocals, e, ws, history >>
    /\ UNCHANGED outside


-----------------------------------------------------------------------------
\* poll_events (lines 34-82)

\* the row under `event` while the task is suspended in send_json
CurId == new_events[idx].id

\* line 76 run without the guard of line 55: an empty result rewinds the cursor
PollFetchOkRewinds ==
    /\ pc = "fetch"
    /\ database = "connected"
    /\ LET batch == FetchAll(db_events, last_id, MAX_EVENTS_PER_POLL) IN
         /\ new_events' = batch
         /\ IF batch = << >>
            THEN PollBecomes(AtSleep("sleep", "none", connected_clients,
                                     0, removedBy))
            ELSE \E r \in EventLoop(batch, 1, connected_clients, last_event_id,
                                    removedBy) : PollBecomes(r)
    /\ atStart' = connected_clients
    /\ UNCHANGED << db_events, last_id, ws, joinCursor, failed, lastSent, got,
                    cycleFailed >>
    /\ UNCHANGED outside

\* Line 49 returns the rows; lines 55-76 run up to the first send_json, or, with
\* nobody to send to, through to the sleep of line 78.
PollFetchOk ==
    /\ pc = "fetch"
    /\ database = "connected"
    /\ LET batch == FetchAll(db_events, last_id, MAX_EVENTS_PER_POLL) IN
         /\ new_events' = batch
         /\ IF batch = << >>
            THEN PollBecomes(AtSleep("sleep", "none", connected_clients,
                                     last_event_id, removedBy))
            ELSE \E r \in EventLoop(batch, 1, connected_clients, last_event_id,
                                    removedBy) : PollBecomes(r)
    /\ atStart' = connected_clients
    /\ UNCHANGED << db_events, last_id, ws, joinCursor, failed, lastSent, got,
                    cycleFailed >>
    /\ UNCHANGED outside

\* an error handler that moves the cursor past the window it could not read
PollFetchFailSkips ==
    /\ pc = "fetch"
    /\ PollBecomes(AtSleep("sleep_err", "query", connected_clients,
                           last_event_id + MAX_EVENTS_PER_POLL, removedBy))
    /\ UNCHANGED << db_events, last_id, new_events, ws, joinCursor, failed,
                    lastSent, got, atStart, cycleFailed >>
    /\ UNCHANGED outside

\* Line 49 raises (the database is unreachable, or disconnected by
\* shutdown()): caught at line 80, printed, the task sleeps at line 82.
PollFetchFail ==
    /\ pc = "fetch"
    /\ PollBecomes(AtSleep("sleep_err", "query", connected_clients,
                           last_event_id, removedBy))
    /\ UNCHANGED << db_events, last_id, new_events, ws, joinCursor, failed,
                    lastSent, got, atStart, cycleFailed >>
    /\ UNCHANGED outside

\* Line 68 returns; the loops go on up to the next await.
SendOk ==
    /\ pc = "send"
    /\ ~stalled
    /\ \E r \in ClientLoop(new_events, idx, it_used, it_rest, disconnected,
                           connected_clients, last_event_id, removedBy) :
         /\ PollBecomes(r)
         /\ lastSent' = Forget([lastSent EXCEPT ![client] = CurId], Gone(r))
         /\ joinCursor' = Forget(joinCursor, Gone(r))
         /\ failed' = failed \ Gone(r)
    /\ got' = [got EXCEPT ![client] = Append(@, CurId)]
    /\ UNCHANGED << db_events, last_id, new_events, ws, atStart, cycleFailed >>
    /\ UNCHANGED outside

\* Line 68 raises: caught at line 69, the client is noted at line 70, the
\* loops go on up to the next await.
SendFail ==
    /\ pc = "send"
    /\ ~stalled
    /\ \E r \in ClientLoop(new_events, idx, it_used, it_rest,
                           disconnected \cup {client},
                           connected_clients, last_event_id, removedBy) :
         /\ PollBecomes(r)
         /\ lastSent' = Forget([lastSent EXCEPT ![client] = CurId], Gone(r))
         /\ joinCursor' = Forget(joinCursor, Gone(r))
         /\ failed' = (failed \cup {client}) \ Gone(r)
    /\ cycleFailed' = cycleFailed \cup {client}
    /\ UNCHANGED << db_events, last_id, new_events, ws, got, atStart >>
    /\ UNCHANGED outside

\* The peer of the handle being sent to stops reading and the transport's
\* buffer is full: line 68 awaits without a timeout, so the polling task stays
\* suspended in this send.
SendStalls ==
    /\ pc = "send"
    /\ ~stalled
    /\ stalled' = TRUE
    /\ UNCHANGED << db_events, last_event_id, connected_clients, pc, last_id,
                    new_events, pollLocals, e, ws, database, history >>

\* the query issued again with the :last_id of the query before it
PollWakeStale ==
    /\ pc \in {"sleep", "sleep_err"}
    /\ pc' = "fetch"
    /\ last_id' = last_id
    /\ e' = "none"
    /\ got' = EmptyGot
    /\ atStart' = {}
    /\ cycleFailed' = {}
    /\ new_events' = << >>
    /\ UNCHANGED << db_events, last_event_id, connected_clients,
                    pollLocals, ws, joinCursor, failed, lastSent, removedBy >>
    /\ UNCHANGED outside

\* The sleep of line 78 or of line 82 ends; `while True` issues the query of
\* line 49 with the cursor as :last_id.
PollWake ==
    /\ pc \in {"sleep", "sleep_err"}
    /\ pc' = "fetch"
    /\ last_id' = last_event_id
    /\ e' = "none"
    /\ got' = EmptyGot
    /\ atStart' = {}
    /\ cycleFailed' = {}
    /\ new_events' = << >>          \* dead until line 49 assigns it
    /\ UNCHANGED << db_events, last_event_id, connected_clients,
                    pollLocals, ws, joinCursor, failed, lastSent, removedBy >>
    /\ UNCHANGED outside

-----------------------------------------------------------------------------
\* websocket_endpoint (lines 85-101)

\* A client requests /ws: the coroutine starts and awaits accept() (line 87).
\* Handles are interchangeable; they are created in index order.
Connect(c) ==
    /\ ws[c] = "idle"
    /\ \A d \in Clients : d < c => ws[d] # "idle"
    /\ ws' = [ws EXCEPT ![c] = "accept"]
    /\ UNCHANGED << db_events, last_event_id, connected_clients, pc, last_id,
                    new_events, pollLocals, e, history >>
    /\ UNCHANGED outside

\* Line 87 raises (the handshake fails): the exception leaves the coroutine
\* before line 88 and before the try of line 90.
AcceptFail(c) ==
    /\ ws[c] = "accept"
    /\ ws' = [ws EXCEPT ![c] = "closed"]
    /\ UNCHANGED << db_events, last_event_id, connected_clients, pc, last_id,
                    new_events, pollLocals, e, history >>
    /\ UNCHANGED outside

\* Line 87 returns, line 88 adds the handle, line 94 awaits.  When the polling
\* task is suspended inside the iteration of line 66, the new member lands,
\* by its hash, in a slot behind or ahead of the iterator's position.  (With
\* at most NumClients adds in a run the 8-slot table is never rebuilt, so the
\* other members keep their slots.)
AcceptOk(c) ==
    /\ ws[c] = "accept"
    /\ ws' = [ws EXCEPT ![c] = "recv"]
    /\ connected_clients' = connected_clients \cup {c}
    /\ joinCursor' = [joinCursor EXCEPT ![c] = last_event_id]
    /\ IF pc = "send"
       THEN it_rest' \in {it_rest, it_rest \cup {c}}
       ELSE it_rest' = it_rest
    /\ UNCHANGED << db_events, last_event_id, pc, last_id, new_events, idx,
                    client, it_used, disconnected, e, failed, lastSent, got,
                    atStart, cycleFailed, removedBy >>
    /\ UNCHANGED outside

\* Line 94 returns a client message: it is dropped and the loop awaits again.
ReceiveText(c) ==
    /\ ws[c] = "recv"
    /\ UNCHANGED vars

\* the receive loop ends without the `finally` of line 100: the handle stays
DisconnectNoFinally(c) ==
    /\ ws[c] = "recv"
    /\ ws' = [ws EXCEPT ![c] = "closed"]
    /\ UNCHANGED << db_events, last_event_id, connected_clients, pc, last_id,
                    new_events, pollLocals, e, history >>
    /\ UNCHANGED outside

\* Line 94 raises (the client is gone, or the connection broke): line 99
\* prints, line 101 discards the handle and the coroutine ends.
Disconnect(c) ==
    /\ ws[c] = "recv"
    /\ ws' = [ws EXCEPT ![c] = "closed"]
    /\ connected_clients' = DifferenceUpdate(connected_clients, {c})
    /\ removedBy' = Mark(removedBy, {c}, "lifecycle")
    /\ it_rest' = it_rest \ {c}
    /\ LET gone == IF pc = "send" /\ client = c THEN {} ELSE {c} IN
         /\ lastSent' = Forget(lastSent, gone)
         /\ joinCursor' = Forget(joinCursor, gone)
         /\ failed' = failed \ gone
    /\ UNCHANGED << db_events, last_event_id, pc, last_id, new_events, idx,
                    client, it_used, disconnected, e, got, atStart,
                    cycleFailed >>
    /\ UNCHANGED outside

-----------------------------------------------------------------------------
\* shutdown (lines 129-131): the handler disconnects the database and does
\* nothing else; no task is cancelled and no WebSocket is closed.
Shutdown ==
    /\ database = "connected"
    /\ database' = "disconnected"
    /\ UNCHANGED << db_events, last_event_id, connected_clients, pc, last_id,
                    new_events, pollLocals, e, ws, stalled, history >>

-----------------------------------------------------------------------------
Next ==
    \/ AppendEvent
    \/ PollFetchOk
    \/ PollFetchFail
    \/ SendOk
    \/ SendFail
    \/ SendStalls
    \/ PollWake
    \/ \E c \in Clients : Connect(c)
    \/ \E c \in Clients : AcceptFail(c)
    \/ \E c \in Clients : AcceptOk(c)
    \/ \E c \in Clients : ReceiveText(c)
    \/ \E c \in Clients : Disconnect(c)
    \/ Shutdown

Spec == Init /\ [][Next]_vars

\* a step of the polling task
PollStep == PollFetchOk \/ PollFetchFail \/ SendOk \/ SendFail \/ PollWake

\* The event loop resumes the polling task whenever what it awaits is done:
\* a sleep ends, fetch_all returns or raises, a send_json that is not stalled
\* returns or raises.  Nothing obliges a client to connect or to close.
FairSpec == Spec /\ WF_vars(PollStep)

TypeOK ==
    /\ last_event_id \in 0..MaxLog
    /\ connected_clients \subseteq Clients
    /\ pc \in {"fetch", "send", "sleep", "sleep_err"}
    /\ e \in {"none", "query", "record", "iter"}
    /\ pc = "send" => idx \in 1..Len(new_events) /\ client \in Clients
    /\ \A c \in Clients : ws[c] \in {"idle", "accept", "recv", "closed"}

-----------------------------------------------------------------------------
\* Properties

\* a poll cycle has ended (the task sleeps) and its query had returned rows
CycleEnded == pc \in {"sleep", "sleep_err"} /\ e # "query" /\ new_events # << >>

\* the n smallest members of S
Lowest(S, n) == {x \in S : Cardinality({y \in S : y < x}) < n}

Min(a, b) == IF a < b THEN a ELSE b

\* C1: Cursor monotonicity.  No step of any task lowers last_event_id, and
\* the step that ends a poll cycle at the sleep of line 78 with a non-empty
\* query result (the broadcast ran to its end) leaves last_event_id equal to
\* the largest id the query returned.
CursorMonotonic ==
    [][ /\ last_event_id' >= last_event_id
        /\ (pc # "sleep" /\ pc' = "sleep" /\ new_events' # << >>)
              => last_event_id' = MaxOf(IdSet(new_events')) ]_vars

\* a cycle over two rows has completed after a send raised and one succeeded
CursorMonotonicWitness ==
    /\ pc = "sleep"
    /\ Len(new_events) = 2
    /\ last_event_id = MaxOf(IdSet(new_events))
    /\ cycleFailed # {}
    /\ \E c \in Clients : got[c] # << >>

\* C2: No loss within a cycle.  When a poll cycle whose query returned k > 0
\* (well-formed) rows has ended, every handle that was registered from the
\* start of the broadcast on and for which no send raised has been delivered
\* exactly the ids of the batch, once each, in ascending order.
NoLossWithinCycle ==
    (CycleEnded /\ WellFormed(new_events))
        => \A c \in steady : got[c] = Ids(new_events)

\* C3: Isolation of a delivery failure.  When a cycle in which a send to some
\* handle raised has ended, every other handle that stayed registered and
\* whose sends succeeded has the whole batch, the cycle ended at the sleep of
\* line 78 (not aborted) and the cursor is the batch's last id.
DeliveryFailureIsolated ==
    (CycleEnded /\ WellFormed(new_events) /\ cycleFailed # {})
        => \A b \in steady :
              /\ pc = "sleep"
              /\ got[b] = Ids(new_events)
              /\ last_event_id = LastEventId(new_events)

\* C4: Failed handles are removed and never sent to again.  No send_json is
\* ever called on a handle for which a send has raised, and when the query of
\* the next cycle is in flight no such handle is in connected_clients.
FailedHandleNeverSentAgain ==
    /\ pc = "send" => client \notin failed
    /\ pc = "fetch" => failed \cap connected_clients = {}

\* C5: A malformed record does not stall the feed.  When a cycle whose batch
\* holds a row that cannot be converted has ended, the cursor has moved past
\* that row's id.
MalformedRecordSkipped ==
    CycleEnded =>
        \A i \in 1..Len(new_events) :
            ~new_events[i].ok => last_event_id >= new_events[i].id

\* C6: Per-subscriber ordering and no redelivery.  (All rows well-formed.)
\* Every send_json to a handle is for an id greater than the id of every
\* earlier send to that handle.
PerSubscriberOrdering ==
    (WellFormed(db_events) /\ pc = "send") => CurId > lastSent[client]

\* C7: Query failure handling.  The step in which fetch_all raises leaves the
\* cursor and the registry as they were and sends nothing, the task goes to
\* the sleep of line 82, and the step that ends that sleep issues the query
\* again with the same :last_id.
QueryFailureHandled ==
    [][ /\ (pc = "fetch" /\ e' = "query") =>
              /\ pc' = "sleep_err"
              /\ last_event_id' = last_event_id
              /\ connected_clients' = connected_clients
              /\ lastSent' = lastSent
              /\ got' = got
        /\ (pc = "sleep_err" /\ e = "query" /\ pc' # pc) =>
              /\ pc' = "fetch"
              /\ last_id' = last_id
              /\ last_id' = last_event_id' ]_vars

\* a query has failed with subscribers registered and the cursor advanced
QueryFailureWitness ==
    /\ pc = "sleep_err"
    /\ e = "query"
    /\ connected_clients # {}
    /\ last_event_id > 0
    /\ Len(db_events) > last_event_id

\* C8: Bounded batch without skipping.  (Queries succeed, rows well-formed.)
\* The step in which fetch_all returns hands over exactly the
\* min(limit, remaining) lowest ids above the cursor, and the step that ends
\* the cycle leaves the cursor at the last of them.
BoundedBatchNoSkip ==
    [][ /\ (pc = "fetch" /\ e' # "query" /\ pc' # "fetch") =>
              LET unseen == {x \in IdSet(db_events) : x > last_event_id} IN
                /\ Len(new_events') = Min(MAX_EVENTS_PER_POLL, Cardinality(unseen))
                /\ IdSet(new_events') = Lowest(unseen, MAX_EVENTS_PER_POLL)
        /\ (pc \in {"fetch", "send"} /\ pc' \in {"sleep", "sleep_err"}
              /\ e' # "query" /\ new_events' # << >> /\ WellFormed(new_events'))
              => last_event_id' = LastEventId(new_events') ]_vars

\* C9: Late joiner miss.  Every send_json to a handle, attempted or
\* delivered, is for an id greater than the value last_event_id had when the
\* handle was added to connected_clients.
LateJoinerMiss ==
    /\ pc = "send" => CurId > joinCursor[client]
    /\ \A c \in Clients :
          /\ lastSent[c] # 0 => lastSent[c] > joinCursor[c]
          /\ \A i \in 1..Len(got[c]) : got[c][i] > joinCursor[c]

\* a handle added after a cycle was broadcast to nobody is sent a later row
LateJoinerWitness ==
    /\ pc = "send"
    /\ joinCursor[client] = MAX_EVENTS_PER_POLL
    /\ CurId > MAX_EVENTS_PER_POLL
    /\ \A c \in Clients : lastSent[c] = 0

\* C10: Idempotent removal.  A handle that a removal has been executed on is
\* never in connected_clients again, and a step that executes a further
\* removal of it (line 73 after line 101, or line 101 after line 73) removes
\* nothing but the other handles it names, raises nothing in the polling task
\* and ends the handle's own coroutine normally.
IdempotentRemoval ==
    /\ [](\A c \in Clients : removedBy[c] # << >> => c \notin connected_clients)
    /\ [][\A c \in Clients :
            (removedBy[c] # << >> /\ removedBy'[c] # removedBy[c]) =>
               /\ connected_clients' = connected_clients \
                      {d \in Clients : d # c /\ removedBy'[d] # removedBy[d]}
               /\ e' = e \/ e' = "record"
               /\ ws'[c] \in {"recv", "closed"} ]_vars

\* both removals have run on two handles, in the two orders
IdempotentRemovalWitness ==
    \E c, d \in Clients :
        /\ removedBy[c] = << "lifecycle", "broadcaster" >>
        /\ removedBy[d] = << "broadcaster", "lifecycle" >>

\* C11: Registry membership tracks live connections.  Every handle in
\* connected_clients has completed accept() and its coroutine is in the
\* receive loop; a handle whose handshake failed or whose coroutine has ended
\* is not in connected_clients, and an ended coroutine stays ended (its
\* handle is never added again).
RegistryTracksLiveConnections ==
    /\ [](\A c \in connected_clients : ws[c] = "recv")
    /\ [][\A c \in Clients :
            /\ ws[c] = "closed" => ws'[c] = "closed"
            /\ (ws[c] = "accept" /\ ws'[c] = "closed")
                  => connected_clients' = connected_clients ]_vars

\* one handle's receive loop has ended while another is still registered
RegistryTracksWitness ==
    \E c, d \in Clients :
        /\ ws[c] = "closed" /\ removedBy[c] = << "lifecycle" >>
        /\ d \in connected_clients

\* C15: Only a handle's own failure or disconnect removes it.  A step that
\* takes a handle out of connected_clients is either the end of that handle's
\* own receive loop or the end of an iteration of line 66 in which a send to
\* that same handle raised.
OnlyOwnFailureRemoves ==
    [][\A g \in Clients :
          (g \in connected_clients /\ g \notin connected_clients') =>
              \/ ws[g] = "recv" /\ ws'[g] = "closed"
              \/ /\ pc = "send"
                 /\ g \in cycleFailed'
                 /\ g \in disconnected \/ (g = client /\ g \notin cycleFailed)
        ]_vars

\* a handle was removed after its send raised while another stays registered
OnlyOwnFailureWitness ==
    \E h, g \in Clients :
        /\ removedBy[h] = << "broadcaster" >>
        /\ ws[h] = "recv"
        /\ g \in connected_clients
        /\ g \in steady

\* C18: An empty poll cycle changes nothing.  The step in which fetch_all
\* returns no row sends nothing and leaves last_event_id and
\* connected_clients as they were; no step of a websocket_endpoint coroutine
\* changes last_event_id.
EmptyCycleChangesNothing ==
    [][ /\ (pc = "fetch" /\ pc' = "sleep" /\ new_events' = << >>) =>
              /\ last_event_id' = last_event_id
              /\ connected_clients' = connected_clients
              /\ lastSent' = lastSent
              /\ got' = got
        /\ ws' # ws => last_event_id' = last_event_id ]_vars

\* an empty cycle has ended with subscribers registered and the cursor advanced
EmptyCycleWitness ==
    /\ pc = "sleep"
    /\ new_events = << >>
    /\ last_event_id > 0
    /\ connected_clients # {}

\* C12: The registry stays safely mutable during a broadcast.  (Rows
\* well-formed.)  When the step that ends a cycle's broadcast finds that a
\* websocket_endpoint coroutine has added or removed a handle since the
\* broadcast began, the cycle still ends at the sleep of line 78 with the
\* cursor at the batch's last id, and every handle registered throughout,
\* with no send raised, has the whole batch.
RegistryMutableDuringBroadcast ==
    [][ (/\ pc = "send" /\ pc' # "send"
         /\ WellFormed(new_events)
         /\ \/ \E c \in atStart : ws[c] = "closed"
            \/ ~(connected_clients \subseteq atStart))
        => /\ pc' = "sleep"
           /\ last_event_id' = LastEventId(new_events)
           /\ \A c \in steady' : got'[c] = Ids(new_events) ]_vars

\* C13: Snapshot once per batch.  Every send_json of a batch goes to a
\* handle that was in connected_clients when the batch's delivery began.
SnapshotOncePerBatch ==
    pc = "send" => client \in atStart


\* C14: A stalled subscriber cannot stall the batch.  (Rows well-formed.)
\* Whenever the send_json to a handle h never returns, h is eventually out of
\* connected_clients and last_event_id eventually reaches the last id of the
\* batch that was being broadcast.
StalledSubscriberCannotStall ==
    \A h \in Clients : \A m \in 1..MaxLog :
        []((/\ pc = "send" /\ stalled /\ client = h
            /\ WellFormed(new_events) /\ LastEventId(new_events) = m)
           => <>(h \notin connected_clients /\ last_event_id >= m))

\* C16: Shutdown stops the core.  If shutdown() runs (the database stays
\* disconnected from then on), then from some point on the polling task
\* issues no further query, every websocket_endpoint coroutine has ended and
\* connected_clients is empty.
ShutdownStopsCore ==
    <>(database = "disconnected")
        => <>[](/\ pc # "fetch"
                /\ connected_clients = {}
                /\ \A c \in Clients : ws[c] \in {"idle", "closed"})

\* C17: A send failure destroys the handle.  A handle that line 73 has taken
\* out of connected_clients while its coroutine is in the receive loop has
\* its coroutine ended eventually, whatever the client does.
SendFailureDestroysHandle ==
    \A h \in Clients :
        []((/\ ws[h] = "recv" /\ h \notin connected_clients
            /\ removedBy[h] = << "broadcaster" >>)
           => <>(ws[h] = "closed"))

\* C19: Eventual drain.  In a run in which every row is well-formed, no
\* send_json stalls and, from some point on, no fetch_all raises and
\* connected_clients does not change, last_event_id eventually equals the
\* largest id in db_events (0 for an empty table) and stays equal to it.
EventualDrain ==
    (/\ []WellFormed(db_events)
     /\ []~stalled
     /\ <>[][~PollFetchFail]_vars
     /\ <>[][connected_clients' = connected_clients]_vars)
    => <>[](last_event_id = MaxOf(IdSet(db_events) \cup {0}))

\* the table is full and was drained over more than one cycle, the last
\* batch delivered to a subscriber
EventualDrainWitness ==
    /\ pc = "sleep"
    /\ Len(db_events) = MaxLog
    /\ WellFormed(db_events)
    /\ last_event_id = MaxLog
    /\ last_id > 0
    /\ ~stalled
    /\ \E c \in connected_clients : got[c] # << >>
=============================================================================
